---- MODULE Spec2Model ----
(***************************************************************************)
(* BioScout Islamabad: the image-identification service (ai_service.py)   *)
(* and the retrieval-augmented query service (rag_service.py), with their *)
(* process-wide USE_FALLBACK_MODE flags.                                   *)
(*                                                                         *)
(* Python strings are TLA+ strings; Len, SubSeq and \o act on them as on   *)
(* sequences of characters.  Python's None is the record NoneValue, a      *)
(* dict is a function from the keys it holds to their values.              *)
(***************************************************************************)
EXTENDS Integers, Sequences, FiniteSets, TLC

VARIABLES
    OPENAI_API_KEY,   \* Config.OPENAI_API_KEY, read once when the process starts
    ai_fallback,      \* ai_service.USE_FALLBACK_MODE
    rag_fallback,     \* rag_service.USE_FALLBACK_MODE
    req,              \* the call in progress, with what its collaborators will answer
    last,             \* the call that has just ended: arguments, remote attempts, outcome
    hist              \* what has happened to the remote attempts since the process started

vars == <<OPENAI_API_KEY, ai_fallback, rag_fallback, req, last, hist>>

(***************************************************************************)
(* Bounds of the inputs.                                                   *)
(***************************************************************************)
MaxExtra == 2        \* document contents run up to 300 + MaxExtra characters
MaxDocs == 4         \* KnowledgeDocument.search returns up to MaxDocs documents
MaxObs == 7          \* the lookups of one query return up to MaxObs observations
MaxWorkers == 2      \* requests the server handles at the same time

(***************************************************************************)
(* Program constants.                                                      *)
(***************************************************************************)
MinKeyLen == 20      \* len(api_key) < 20
DocLimit == 3        \* knowledge_docs[:3]
ObsLimit == 5        \* observations[:5]
ContentLimit == 300  \* doc['content'][:300]
DefaultTop == 3      \* species_mentioned[:3]

(***************************************************************************)
(* Python's str operations.                                                *)
(***************************************************************************)
NoneValue == [py |-> "None"]

Min(a, b) == IF a <= b THEN a ELSE b

\* s[:n]
Take(s, n) == SubSeq(s, 1, Min(n, Len(s)))

\* s[n:]
Drop(s, n) == SubSeq(s, Min(n, Len(s)) + 1, Len(s))

\* the 1-based positions at which t occurs in s
Occurrences(s, t) ==
    {i \in 1..(Len(s) - Len(t) + 1) : SubSeq(s, i, i + Len(t) - 1) = t}

\* t in s
Contains(s, t) == Occurrences(s, t) # {}

\* the least and the greatest member of a set of numbers that is not empty
Least(S) == CHOOSE i \in S : \A j \in S : i <= j
Greatest(S) == CHOOSE i \in S : \A j \in S : j <= i

FirstOf(occ) == IF occ = {} THEN 0 ELSE Least(occ)
LastOf(occ) == IF occ = {} THEN 0 ELSE Greatest(occ)

\* s.find(t) + 1: the position of the first occurrence, 0 when there is none
Find(s, t) == FirstOf(Occurrences(s, t))

\* s.rfind(t) + 1
RFind(s, t) == LastOf(Occurrences(s, t))

\* s.startswith(t)
StartsWith(s, t) == Len(t) <= Len(s) /\ SubSeq(s, 1, Len(t)) = t

UpperCase == "ABCDEFGHIJKLMNOPQRSTUVWXYZ"
LowerCase == "abcdefghijklmnopqrstuvwxyz"

LowerAt(c, k) == IF Len(c) = 1 /\ k > 0 THEN SubSeq(LowerCase, k, k) ELSE c

LowerChar(c) == LowerAt(c, Find(UpperCase, c))

\* s.lower()
RECURSIVE Lower(_)
Lower(s) ==
    IF Len(s) <= 1 THEN LowerChar(s)
    ELSE LET h == Len(s) \div 2
         IN  Lower(SubSeq(s, 1, h)) \o Lower(SubSeq(s, h + 1, Len(s)))

IsSpace(c) == c \in {" ", "\n", "\t", "\r"}

Between(s, keep) == IF keep = {} THEN "" ELSE SubSeq(s, Least(keep), Greatest(keep))

\* s.strip()
Strip(s) == Between(s, {i \in 1..Len(s) : ~IsSpace(SubSeq(s, i, i))})

\* s.split(sep), sep not empty: the pieces between the non-overlapping
\* occurrences of sep, scanned from the left; k is the first of them
RECURSIVE Split(_, _)
SplitAt(s, sep, k) ==
    IF k = 0 THEN <<s>>
    ELSE <<SubSeq(s, 1, k - 1)>> \o Split(Drop(s, k + Len(sep) - 1), sep)

Split(s, sep) == SplitAt(s, sep, Find(s, sep))

SplitOnceAt(s, sep, k) ==
    IF k = 0 THEN <<s>> ELSE <<SubSeq(s, 1, k - 1), Drop(s, k + Len(sep) - 1)>>

\* s.split(sep, 1)
SplitOnce(s, sep) == SplitOnceAt(s, sep, Find(s, sep))

\* s.replace(old, new), old not empty
RECURSIVE Replace(_, _, _)
ReplaceAt(s, old, new, k) ==
    IF k = 0 THEN s
    ELSE SubSeq(s, 1, k - 1) \o new \o Replace(Drop(s, k + Len(old) - 1), old, new)

Replace(s, old, new) == ReplaceAt(s, old, new, Find(s, old))

\* sep.join(parts)
RECURSIVE Join(_, _)
Join(parts, sep) ==
    IF parts = <<>> THEN ""
    ELSE IF Len(parts) = 1 THEN parts[1]
    ELSE parts[1] \o sep \o Join(Tail(parts), sep)

\* [x for x in xs if keep[x]], keep a set of positions of xs
RECURSIVE SelectAt(_, _, _)
SelectAt(xs, keep, i) ==
    IF i > Len(xs) THEN <<>>
    ELSE (IF i \in keep THEN <<xs[i]>> ELSE <<>>) \o SelectAt(xs, keep, i + 1)

(***************************************************************************)
(* config.py                                                               *)
(***************************************************************************)
Str(s) == [py |-> "str", s |-> s]

\* The values os.getenv('OPENAI_API_KEY') can give: None when the variable is
\* unset, else its text.  One key of each kind the check on the key tells
\* apart, the lengths on both sides of MinKeyLen.
KeyTail(n) == SubSeq("0123456789abcdefghijklmnopqrstuvwxyz", 1, n)

ApiKeys ==
    {NoneValue, Str(""), Str("None"), Str("sk-" \o KeyTail(MinKeyLen - 4)),
     Str("sk-" \o KeyTail(MinKeyLen - 3)), Str("sk-None" \o KeyTail(MinKeyLen))}

(***************************************************************************)
(* ai_service.py                                                           *)
(***************************************************************************)
\* "None" in api_key or not api_key or len(api_key) < 20, for a key that is
\* a str
KeyRejected(k) == Contains(k, "None") \/ k = "" \/ Len(k) < MinKeyLen

\* The same test on Config.OPENAI_API_KEY: `"None" in api_key` comes first
\* and raises TypeError when api_key is None.
KeyCheck(api_key) ==
    IF api_key = NoneValue THEN "TypeError"
    ELSE IF KeyRejected(api_key.s) THEN "rejected" ELSE "accepted"

\* os.path.basename
Basename(p) == Drop(p, RFind(p, "/"))

SplitExtAt(p, sepIndex, dotIndex) ==
    IF /\ dotIndex > sepIndex
       /\ \E i \in (sepIndex + 1)..(dotIndex - 1) : SubSeq(p, i, i) # "."
    THEN Take(p, dotIndex - 1)
    ELSE p

\* os.path.splitext(p)[0]
SplitExtRoot(p) == SplitExtAt(p, RFind(p, "/"), RFind(p, "."))

common_wildlife ==
    << [keyword |-> "leopard", name |-> "Common Leopard",
        scientific |-> "Panthera pardus", category |-> "Mammal"],
       [keyword |-> "deer", name |-> "Barking Deer",
        scientific |-> "Muntiacus muntjak", category |-> "Mammal"],
       [keyword |-> "fox", name |-> "Red Fox",
        scientific |-> "Vulpes vulpes", category |-> "Mammal"],
       [keyword |-> "bird", name |-> "Himalayan Griffon",
        scientific |-> "Gyps himalayensis", category |-> "Bird"],
       [keyword |-> "eagle", name |-> "Steppe Eagle",
        scientific |-> "Aquila nipalensis", category |-> "Bird"],
       [keyword |-> "duck", name |-> "Mallard Duck",
        scientific |-> "Anas platyrhynchos", category |-> "Bird"],
       [keyword |-> "snake", name |-> "Indian Cobra",
        scientific |-> "Naja naja", category |-> "Reptile"] >>

\* filename.split('_', 1)[1] when the name holds an underscore
AfterPrefix(base, parts) ==
    IF Contains(base, "_") /\ Len(parts) > 1 THEN parts[2] ELSE base

DropPrefix(base) == AfterPrefix(base, SplitOnce(base, "_"))

\* The name the keywords are looked up in: lowercased base name, less the
\* part up to its first underscore, less its extension.
FallbackFilename(image_path) == SplitExtRoot(DropPrefix(Lower(Basename(image_path))))

KnownWildlife(info) ==
    [success |-> TRUE,
     result |-> "This appears to be a " \o info.name \o " (" \o info.scientific
         \o "), which is a " \o info.category
         \o " found in Islamabad, Pakistan. (Note: This is an offline identification)",
     species |-> [name |-> info.name, confidence |-> 7]]

UnknownWildlife ==
    [success |-> TRUE,
     result |-> "This appears to be a wildlife species from Islamabad, Pakistan. For accurate identification, please try again when the AI service is available. (Note: This is an offline identification)",
     species |-> [name |-> "Unknown Wildlife Species", confidence |-> 5]]

\* FirstHit with a plausible slip: the last keyword that matches wins.
LastHit(hits) ==
    IF hits # {} THEN KnownWildlife(common_wildlife[Greatest(hits)]) ELSE UnknownWildlife

\* for keyword, info in common_wildlife.items(): the first hit is returned
FirstHit(hits) ==
    IF hits # {} THEN KnownWildlife(common_wildlife[Least(hits)]) ELSE UnknownWildlife

KeywordHits(filename) ==
    {i \in 1..Len(common_wildlife) : Contains(filename, common_wildlife[i].keyword)}

\* Confidences are in tenths: 7 is 0.7.
generate_fallback_identification(image_path) ==
    FirstHit(KeywordHits(FallbackFilename(image_path)))

\* ConfidenceIn with a plausible slip: the phrases are looked for from the
\* lowest up.
ConfidenceLowestFirst(text_lower) ==
    IF Contains(text_lower, "low confidence") THEN 5
    ELSE IF Contains(text_lower, "medium confidence") THEN 7
    ELSE IF Contains(text_lower, "high confidence") THEN 9
    ELSE 6

ConfidenceIn(text_lower) ==
    IF Contains(text_lower, "high confidence") THEN 9
    ELSE IF Contains(text_lower, "medium confidence") THEN 7
    ELSE IF Contains(text_lower, "low confidence") THEN 5
    ELSE 6

get_confidence_from_text(text) == ConfidenceIn(Lower(text))

\* result_text.lower().split("identified as")[1].strip().split(".")[0].strip()
SpeciesNameIn(text_lower) ==
    Strip(Split(Strip(Split(text_lower, "identified as")[2]), ".")[1])

SpeciesIn(result_text, text_lower) ==
    IF Contains(text_lower, "identified as")
    THEN [name |-> SpeciesNameIn(text_lower),
          confidence |-> get_confidence_from_text(result_text)]
    ELSE NoneValue

extract_species_from_result(result_text) == SpeciesIn(result_text, Lower(result_text))

\* What the attempt on the vision model can come to: open(image_path) raises;
\* requests.post or response.json() raises; the JSON has no 'choices'; it has
\* 'choices' of another shape than [{'message': {'content': ...}}]; the
\* content is null; the content is a text.
VisionTexts ==
    {"The animal is identified as a Common Myna. High confidence.",
     "This looks like a kingfisher, low confidence.",
     "Identified as a golden jackal. Low confidence in the subspecies, HIGH CONFIDENCE in the genus.",
     "It is identified as Rhesus Macaque. Medium confidence, low confidence at night.",
     "identified as a grey francolin. low confidence.",
     "Identified as a wild boar."}

VisionOutcomes ==
    {[kind |-> k] : k \in {"read_error", "request_error", "no_choices",
                           "bad_choices", "null_content"}}
    \cup {[kind |-> "content", text |-> t] : t \in VisionTexts}

VisionModel == "gpt-4-vision-preview"

\* The effect of one call: how it ends, what it returns, the flag it leaves
\* and the remote requests it made.
Effect(outcome, value, flag, remote) ==
    [outcome |-> outcome, value |-> value, flag |-> flag, remote |-> remote]

\* Identify with a plausible slip: a response without 'choices' gives the
\* deterministic result but leaves the flag unset.
IdentifyKeepingFlag(flag, check, out, fallback) ==
    IF flag THEN Effect("return", fallback, flag, <<>>)
    ELSE IF check = "TypeError" THEN Effect("raise", "TypeError", flag, <<>>)
    ELSE IF check = "rejected" THEN Effect("return", fallback, TRUE, <<>>)
    ELSE IF out.kind = "read_error" THEN Effect("return", fallback, TRUE, <<>>)
    ELSE IF out.kind = "content"
    THEN Effect("return",
                [success |-> TRUE, result |-> out.text,
                 species |-> extract_species_from_result(out.text)],
                flag, <<VisionModel>>)
    ELSE IF out.kind = "no_choices" THEN Effect("return", fallback, flag, <<VisionModel>>)
    ELSE Effect("return", fallback, TRUE, <<VisionModel>>)

\* The body of get_species_from_image; check is what the test of the key
\* comes to, fallback what generate_fallback_identification(image_path)
\* returns.
Identify(flag, check, out, fallback) ==
    IF flag THEN Effect("return", fallback, flag, <<>>)
    ELSE IF check = "TypeError" THEN Effect("raise", "TypeError", flag, <<>>)
    ELSE IF check = "rejected" THEN Effect("return", fallback, TRUE, <<>>)
    ELSE IF out.kind = "read_error" THEN Effect("return", fallback, TRUE, <<>>)
    ELSE IF out.kind = "content"
    THEN Effect("return",
                [success |-> TRUE, result |-> out.text,
                 species |-> extract_species_from_result(out.text)],
                flag, <<VisionModel>>)
    ELSE Effect("return", fallback, TRUE, <<VisionModel>>)

get_species_from_image(image_path, api_key, flag, out) ==
    Identify(flag, KeyCheck(api_key), out, generate_fallback_identification(image_path))

(***************************************************************************)
(* rag_service.py                                                          *)
(***************************************************************************)
locations ==
    <<"margalla hills", "rawal lake", "shakarparian", "daman-e-koh",
      "pir sohawa", "trail", "islamabad">>

categories ==
    <<"bird", "birds", "mammal", "mammals", "reptile", "reptiles",
      "amphibian", "amphibians", "fish">>

\* A term of the vocabulary stands in the query as whole words.
AsWords(query_lower, term) == Contains(" " \o query_lower \o " ", " " \o term \o " ")

\* Matches with a plausible slip: a term matches as whole words only.
MatchesWords(vocabulary, query_lower) ==
    SelectAt(vocabulary,
             {i \in 1..Len(vocabulary) : AsWords(query_lower, vocabulary[i])}, 1)

\* [t for t in vocabulary if t in query_lower]
Matches(vocabulary, query_lower) ==
    SelectAt(vocabulary,
             {i \in 1..Len(vocabulary) : Contains(query_lower, vocabulary[i])}, 1)

\* KeyTermsIn with a plausible slip: the categories are scanned first.
KeyTermsCategoriesFirst(query_lower) ==
    Matches(categories, query_lower) \o Matches(locations, query_lower)

KeyTermsIn(query_lower) ==
    Matches(locations, query_lower) \o Matches(categories, query_lower)

extract_key_terms(query) == KeyTermsIn(Lower(query))

\* d.get(key, default)
Get(d, key, default) == IF key \in DOMAIN d THEN d[key] ELSE default

DocLine(doc) ==
    "- " \o doc.title \o " (" \o doc.source \o "): "
         \o Take(doc.content, ContentLimit) \o "...\n\n"

ObsLine(obs) ==
    "- " \o Get(obs, "species_name", "Unknown species") \o " observed at "
         \o Get(obs, "location", "Unknown location") \o " on "
         \o Get(obs, "date_observed", "Unknown date") \o "\n"

\* context += line(x) for x in xs, from xs[i] on
RECURSIVE DocLines(_, _)
DocLines(docs, i) ==
    IF i > Len(docs) THEN "" ELSE DocLine(docs[i]) \o DocLines(docs, i + 1)

RECURSIVE ObsLines(_, _)
ObsLines(observations, i) ==
    IF i > Len(observations) THEN ""
    ELSE ObsLine(observations[i]) \o ObsLines(observations, i + 1)

\* build_context with a plausible slip: the slice of the documents is one
\* too long.
build_context_off_by_one(knowledge_docs, observations) ==
    "Knowledge Base Information:\n"
        \o DocLines(Take(knowledge_docs, DocLimit + 1), 1)
        \o "\nRecent Observations:\n"
        \o ObsLines(Take(observations, ObsLimit), 1)

build_context(knowledge_docs, observations) ==
    "Knowledge Base Information:\n"
        \o DocLines(Take(knowledge_docs, DocLimit), 1)
        \o "\nRecent Observations:\n"
        \o ObsLines(Take(observations, ObsLimit), 1)

\* for line in lines: if line.startswith('- ') and 'observed at' in line
Observed(lines) ==
    SelectAt(lines,
             {i \in 1..Len(lines) :
                 StartsWith(lines[i], "- ") /\ Contains(lines[i], "observed at")}, 1)

\* The lines of the context the deterministic path reads as observations.
ObservedLines(context) == Observed(Split(context, "\n"))

\* line.split('observed at')[0].replace('- ', '').strip()
ParsedSpecies(line) == Strip(Replace(Split(line, "observed at")[1], "- ", ""))

\* line.split('observed at')[1].split('on')[0].strip()
ParsedLocation(line) == Strip(Split(Split(line, "observed at")[2], "on")[1])

SpeciesOf(ls) == [i \in 1..Len(ls) |-> ParsedSpecies(ls[i])]

LocationsOf(ls) == [i \in 1..Len(ls) |-> ParsedLocation(ls[i])]

species_mentioned(context) == SpeciesOf(ObservedLines(context))

locations_mentioned(context) == LocationsOf(ObservedLines(context))

\* [s for s in species_mentioned if "bird" in s.lower() or ...]
IsBird(s_lower) ==
    Contains(s_lower, "bird") \/ Contains(s_lower, "duck") \/ Contains(s_lower, "eagle")

BirdSpecies(sp) == SelectAt(sp, {i \in 1..Len(sp) : IsBird(Lower(sp[i]))}, 1)

\* the species whose paired location names the place
SpeciesAt(sp, loc, place) ==
    SelectAt(sp, {i \in 1..Len(loc) : Contains(Lower(loc[i]), place) /\ i <= Len(sp)}, 1)

\* "<found>: a, b, c." when the rule found species, else <none>
Listed(species, found, none) ==
    IF species # <<>> THEN found \o Join(species, ", ") \o "." ELSE none

\* KeywordRules with a plausible slip: the rules of the two places come
\* before the rule of the birds.
KeywordRulesPlacesFirst(query_lower, sp, loc) ==
    IF Contains(query_lower, "margalla")
    THEN Listed(SpeciesAt(sp, loc, "margalla"),
                "In Margalla Hills, these species have been recorded: ",
                "Margalla Hills is known for its biodiversity, but I don't have specific observations in our current records.")
    ELSE IF Contains(query_lower, "rawal") \/ Contains(query_lower, "lake")
    THEN Listed(SpeciesAt(sp, loc, "rawal"),
                "At Rawal Lake, these species have been observed: ",
                "Rawal Lake is home to various species, but I don't have specific observations in our current records.")
    ELSE IF Contains(query_lower, "bird") \/ Contains(query_lower, "birds")
    THEN Listed(BirdSpecies(sp),
                "Based on our records, the following bird species have been observed in Islamabad: ",
                "I don't have specific information about birds in that area from our records.")
    ELSE Listed(Take(sp, DefaultTop),
                "Based on our records, these species have been observed in Islamabad: ",
                "I don't have specific information about that in our current records. You can try asking about birds, mammals, or specific locations like Margalla Hills or Rawal Lake.")

\* The keyword rules, on the lowercased query and the lists parsed from the
\* context.
KeywordRules(query_lower, sp, loc) ==
    IF Contains(query_lower, "bird") \/ Contains(query_lower, "birds")
    THEN Listed(BirdSpecies(sp),
                "Based on our records, the following bird species have been observed in Islamabad: ",
                "I don't have specific information about birds in that area from our records.")
    ELSE IF Contains(query_lower, "margalla")
    THEN Listed(SpeciesAt(sp, loc, "margalla"),
                "In Margalla Hills, these species have been recorded: ",
                "Margalla Hills is known for its biodiversity, but I don't have specific observations in our current records.")
    ELSE IF Contains(query_lower, "rawal") \/ Contains(query_lower, "lake")
    THEN Listed(SpeciesAt(sp, loc, "rawal"),
                "At Rawal Lake, these species have been observed: ",
                "Rawal Lake is home to various species, but I don't have specific observations in our current records.")
    ELSE Listed(Take(sp, DefaultTop),
                "Based on our records, these species have been observed in Islamabad: ",
                "I don't have specific information about that in our current records. You can try asking about birds, mammals, or specific locations like Margalla Hills or Rawal Lake.")

ParsedRules(query_lower, ls) == KeywordRules(query_lower, SpeciesOf(ls), LocationsOf(ls))

\* The text generate_fallback_response returns.
FallbackText(query, context) == ParsedRules(Lower(query), ObservedLines(context))

\* generate_fallback_response sets USE_FALLBACK_MODE before it answers.
generate_fallback_response(query, context) ==
    Effect("return", FallbackText(query, context), TRUE, <<>>)

PrimaryModel == "gpt-4-1106-preview"
SecondaryModel == "gpt-3.5-turbo"

\* What one chat completion can come to: create() raises; the response has
\* no choices[0].message.content; the content is a text.
Answered(o) == o.kind = "content"

\* Generate with a plausible slip each.  A call in fallback mode probes the
\* primary model and, when it answers, takes the service back to normal mode.
GenerateResetting(flag, check, chat, fallback) ==
    IF flag /\ check = "accepted" /\ Answered(chat[1])
    THEN Effect("return", chat[1].text, FALSE, <<PrimaryModel>>)
    ELSE IF flag \/ check = "rejected" THEN fallback
    ELSE IF check = "TypeError" THEN Effect("raise", "TypeError", flag, <<>>)
    ELSE IF Answered(chat[1]) THEN Effect("return", chat[1].text, flag, <<PrimaryModel>>)
    ELSE IF Answered(chat[2])
    THEN Effect("return", chat[2].text, flag, <<PrimaryModel, SecondaryModel>>)
    ELSE Effect("return", fallback.value, TRUE, <<PrimaryModel, SecondaryModel>>)

\* The flag is not read before the remote requests are made.
GenerateIgnoringFlag(flag, check, chat, fallback) ==
    IF check = "TypeError" THEN Effect("raise", "TypeError", flag, <<>>)
    ELSE IF check = "rejected" THEN fallback
    ELSE IF Answered(chat[1]) THEN Effect("return", chat[1].text, flag, <<PrimaryModel>>)
    ELSE IF Answered(chat[2])
    THEN Effect("return", chat[2].text, flag, <<PrimaryModel, SecondaryModel>>)
    ELSE Effect("return", fallback.value, TRUE, <<PrimaryModel, SecondaryModel>>)

\* The secondary model is never requested.
GenerateSingleTier(flag, check, chat, fallback) ==
    IF flag THEN fallback
    ELSE IF check = "TypeError" THEN Effect("raise", "TypeError", flag, <<>>)
    ELSE IF check = "rejected" THEN fallback
    ELSE IF Answered(chat[1]) THEN Effect("return", chat[1].text, flag, <<PrimaryModel>>)
    ELSE Effect("return", fallback.value, TRUE, <<PrimaryModel>>)

\* The flag is assigned without `global`: it stays as it was when both
\* requests fail.
GenerateForgetful(flag, check, chat, fallback) ==
    IF flag THEN fallback
    ELSE IF check = "TypeError" THEN Effect("raise", "TypeError", flag, <<>>)
    ELSE IF check = "rejected" THEN fallback
    ELSE IF Answered(chat[1]) THEN Effect("return", chat[1].text, flag, <<PrimaryModel>>)
    ELSE IF Answered(chat[2])
    THEN Effect("return", chat[2].text, flag, <<PrimaryModel, SecondaryModel>>)
    ELSE Effect("return", fallback.value, flag, <<PrimaryModel, SecondaryModel>>)

\* A rejected key gets the deterministic response and the flag is left as
\* it was.
GenerateQuietly(flag, check, chat, fallback) ==
    IF flag THEN fallback
    ELSE IF check = "TypeError" THEN Effect("raise", "TypeError", flag, <<>>)
    ELSE IF check = "rejected" THEN Effect("return", fallback.value, flag, <<>>)
    ELSE IF Answered(chat[1]) THEN Effect("return", chat[1].text, flag, <<PrimaryModel>>)
    ELSE IF Answered(chat[2])
    THEN Effect("return", chat[2].text, flag, <<PrimaryModel, SecondaryModel>>)
    ELSE Effect("return", fallback.value, TRUE, <<PrimaryModel, SecondaryModel>>)

\* The body of generate_response; check is what the test of the key comes
\* to, chat[1] what the first request of the call comes to, chat[2] what the
\* second comes to, fallback what generate_fallback_response(query, context)
\* returns.
Generate(flag, check, chat, fallback) ==
    IF flag THEN fallback
    ELSE IF check = "TypeError" THEN Effect("raise", "TypeError", flag, <<>>)
    ELSE IF check = "rejected" THEN fallback
    ELSE IF Answered(chat[1]) THEN Effect("return", chat[1].text, flag, <<PrimaryModel>>)
    ELSE IF Answered(chat[2])
    THEN Effect("return", chat[2].text, flag, <<PrimaryModel, SecondaryModel>>)
    ELSE Effect("return", fallback.value, TRUE, <<PrimaryModel, SecondaryModel>>)

generate_response(query, context, api_key, flag, chat) ==
    Generate(flag, KeyCheck(api_key), chat, generate_fallback_response(query, context))

\* str(n) of a natural number
RECURSIVE ToStr(_)
ToStr(n) ==
    IF n < 10 THEN SubSeq("0123456789", n + 1, n + 1)
    ELSE ToStr(n \div 10) \o ToStr(n % 10)

\* bool(obs['coordinates']): a list is true when it is not empty
Truthy(coordinates) == coordinates # <<>>

Feature(obs) ==
    [type |-> "Feature",
     geometry |-> [type |-> "Point", coordinates |-> obs["coordinates"]],
     properties |->
        [id |-> IF "id" \in DOMAIN obs THEN ToStr(obs["id"]) ELSE "",
         species |-> Get(obs, "species_name", "Unknown"),
         date |-> Get(obs, "date_observed", ""),
         location |-> Get(obs, "location", ""),
         notes |-> Get(obs, "notes", "")]]

\* if 'coordinates' in obs and obs['coordinates']
HasPoint(obs) == "coordinates" \in DOMAIN obs /\ Truthy(obs["coordinates"])

\* An id that stands for an object whose __str__ raises: str(obs.get('id', ''))
\* is the one call of the try block that can fail on a dict.
Unprintable == -1

\* The dict of the observation cannot be built: the except branch drops it.
Raises(obs) == "id" \in DOMAIN obs /\ obs["id"] = Unprintable

Formatted(obs) == HasPoint(obs) /\ ~Raises(obs)

\* The Feature of every observation of kept, in order.
FeaturesOf(observations, kept) ==
    SelectAt([i \in 1..Len(observations) |->
                 IF i \in kept THEN Feature(observations[i]) ELSE NoneValue],
             kept, 1)

\* format_observations with a plausible slip: the try block is around the
\* loop, so the first fault ends the batch.
format_observations_until_fault(observations) ==
    FeaturesOf(observations,
               {i \in 1..Len(observations) :
                   /\ Formatted(observations[i])
                   /\ \A j \in 1..i : ~(HasPoint(observations[j]) /\ Raises(observations[j]))})

format_observations(observations) ==
    FeaturesOf(observations, {i \in 1..Len(observations) : Formatted(observations[i])})

(***************************************************************************)
(* The inputs: what the callers pass and what the collaborators answer.    *)
(***************************************************************************)
Cycle(xs, i) == xs[((i - 1) % Len(xs)) + 1]

RECURSIVE Pattern(_)
Pattern(n) ==
    IF n <= 10 THEN Take("abcdefghij", n) ELSE "abcdefghij" \o Pattern(n - 10)

\* Lengths of document contents on both sides of ContentLimit.
ContentLens ==
    <<ContentLimit + MaxExtra, 0, ContentLimit, 17, ContentLimit - 1, ContentLimit + 1>>

DocAt(i) ==
    [title |-> "Doc " \o ToStr(i), source |-> "Source " \o ToStr(i),
     content |-> Pattern(Cycle(ContentLens, i))]

\* The documents DocAt(from + 1), ..., DocAt(from + n)
DocList(from, n) == [i \in 1..n |-> DocAt(from + i)]

SpeciesNames ==
    <<"Himalayan Bulbul", "Mallard Duck", "Common Leopard", "Steppe Eagle",
      "Indian Cobra", "Kingfisher bird">>

LocationNames ==
    <<"Margalla Hills Trail 5", "Rawal Lake", "Shakarparian National Park",
      "Daman-e-Koh", "Margalla Hills">>

\* Observations with every field, and with fields absent or empty.
ObsAt(i) ==
    LET species == [species_name |-> Cycle(SpeciesNames, i)]
        place == [location |-> Cycle(LocationNames, i)]
        date == [date_observed |-> "2024-03-" \o ToStr(10 + (i % 10))]
        point == [coordinates |-> <<7300 + i, 3368>>]
    IN  CASE i % 4 = 1 -> species @@ place @@ date @@ point @@ [id |-> i, notes |-> "seen at dawn"]
          [] i % 4 = 2 -> place @@ date @@ [id |-> i]
          [] i % 4 = 3 -> species @@ [coordinates |-> <<>>, id |-> i]
          [] OTHER -> species @@ place @@ point

ObsList(from, n) == [i \in 1..n |-> ObsAt(from + i)]

\* ObsList(from, n) with an id that cannot be printed in its k-th
\* observation, if it has one.
FaultyObsList(from, n, k) ==
    [i \in 1..n |-> IF i = k THEN [id |-> Unprintable] @@ ObsAt(from + i)
                    ELSE ObsAt(from + i)]

\* A document that speaks of sightings, and observations at places whose
\* names hold "on".
FieldNotes ==
    [title |-> "Field notes", source |-> "IWMB",
     content |-> "Leopards are often observed at dusk on the ridge."]

ZoneSighting ==
    [species_name |-> "Common Leopard", location |-> "Islamabad Zone III, Margalla Hills",
     date_observed |-> "2024-03-19"]

ParkSighting ==
    [species_name |-> "Mallard Duck", location |-> "Shakarparian National Park",
     date_observed |-> "2024-03-18"]

LakeSighting ==
    [species_name |-> "Steppe Eagle", location |-> "Rawal Lake",
     date_observed |-> "2024-03-20"]

Sightings ==
    {<<LakeSighting>>, <<ParkSighting>>, <<LakeSighting, ZoneSighting>>,
     <<ZoneSighting, ParkSighting, LakeSighting>>}

\* Which calls to Observation find something: none, all, the lookups by
\* species, all with the same answer.  A call that finds something returns
\* two observations, of its own unless all answer the same.
HitPatterns == {"none", "all", "species", "same"}

ObsAnswer(env, k) ==
    IF env.hits = "all" \/ (env.hits = "species" /\ k % 2 = 1)
    THEN ObsList(2 * (k - 1), 2)
    ELSE IF env.hits = "same" THEN ObsList(0, 2)
    ELSE <<>>

ChatOutcomes(text) ==
    {[kind |-> "error"], [kind |-> "bad_choices"], [kind |-> "content", text |-> text]}

ChatScripts ==
    {<<a, b>> : a \in ChatOutcomes("Answer of GPT-4 Turbo."),
                b \in ChatOutcomes("Answer of GPT-3.5.")}

Queries ==
    {"hello there", "What lives in Margalla Hills?", "Any fish in Rawal Lake?",
     "Tell me about birds near Margalla Hills"}

\* Queries that name several of the keywords of the deterministic path.
RuleQueries ==
    Queries \cup
    {"Margalla or Rawal Lake?", "Birds of the LAKE", "Who swims in the lake?",
     "Rawal birdlife seen from Margalla"}

TermQueries ==
    Queries \cup
    {"", "TRAILS of ISLAMABAD", "reptiles", "Is Shakarparian good for amphibians?",
     "What mammals live around Daman-e-Koh and Pir Sohawa?", "A bird, a mammal",
     "selfish", "fish trail", "MARGALLA HILLS"}

SearchResults ==
    {[kind |-> "raise"], [kind |-> "docs", docs |-> <<>>],
     [kind |-> "docs", docs |-> DocList(2, MaxDocs)]}

Contexts ==
    {build_context(<<>>, <<>>), build_context(DocList(3, 2), ObsList(0, MaxObs))}

\* The dict process_query returns from its except branch.
ErrorResult ==
    [response |-> "I'm sorry, there was an error processing your query. Please try again.",
     knowledge_sources |-> <<>>, observation_count |-> 0, observations |-> <<>>]

\* The calls process_query makes to Observation, in order: for each key term
\* find_by_species, then find_by_location.
RECURSIVE LookupCalls(_, _)
LookupCalls(key_terms, i) ==
    IF i > Len(key_terms) THEN <<>>
    ELSE <<[fn |-> "find_by_species", arg |-> key_terms[i]],
           [fn |-> "find_by_location", arg |-> key_terms[i]]>>
         \o LookupCalls(key_terms, i + 1)

\* observation_results: the answers to calls k..n, extended in that order
RECURSIVE ObservationResults(_, _, _)
ObservationResults(env, n, k) ==
    IF k > n THEN <<>> ELSE ObsAnswer(env, k) \o ObservationResults(env, n, k + 1)

\* [doc['title'] for doc in knowledge_results]
Titles(docs) == [i \in 1..Len(docs) |-> docs[i].title]

\* Answer with a plausible slip: the observations are counted as far as the
\* context shows them.
AnswerCountingShown(g, query, knowledge_results, observation_results, calls) ==
    [outcome |-> "return",
     value |-> IF g.outcome = "raise" THEN ErrorResult
               ELSE [response |-> g.value,
                     knowledge_sources |-> Titles(knowledge_results),
                     observation_count |-> Min(Len(observation_results), ObsLimit),
                     observations |-> format_observations(observation_results)],
     flag |-> g.flag, remote |-> g.remote,
     calls |-> <<[fn |-> "search", arg |-> query]>> \o calls]

\* The dict process_query returns, or the one of its except branch when
\* generate_response raised.
Answer(g, query, knowledge_results, observation_results, calls) ==
    [outcome |-> "return",
     value |-> IF g.outcome = "raise" THEN ErrorResult
               ELSE [response |-> g.value,
                     knowledge_sources |-> Titles(knowledge_results),
                     observation_count |-> Len(observation_results),
                     observations |-> format_observations(observation_results)],
     flag |-> g.flag, remote |-> g.remote,
     calls |-> <<[fn |-> "search", arg |-> query]>> \o calls]

\* Steps 3 and 4: the context is built and the response generated.
Respond(query, knowledge_results, observation_results, calls, api_key, flag, chat) ==
    Answer(generate_response(query, build_context(knowledge_results, observation_results),
                             api_key, flag, chat),
           query, knowledge_results, observation_results, calls)

\* Step 2: the observations are looked up, calls being the lookups made.
Retrieve(query, env, calls, api_key, flag) ==
    Respond(query, env.search.docs, ObservationResults(env, Len(calls), 1), calls,
            api_key, flag, env.chat)

\* env.search is what KnowledgeDocument.search comes to, ObsAnswer(env, k)
\* what the k-th call to Observation returns, env.chat what the chat
\* completions come to.
process_query(query, env, api_key, flag) ==
    IF env.search.kind = "raise"
    THEN [outcome |-> "return", value |-> ErrorResult, flag |-> flag, remote |-> <<>>,
          calls |-> <<[fn |-> "search", arg |-> query]>>]
    ELSE Retrieve(query, env, LookupCalls(extract_key_terms(query), 1), api_key, flag)

ImagePaths ==
    {"static/uploads/uuid123_leopard.jpg", "eagle.png", "/tmp/a1b2_IMG_0042.JPG",
     "deer_bird.jpg", "photos.v2/Snake", "..duck"}

\* Paths with several keywords, with a prefix that holds a keyword, with
\* dots in the directory and with two extensions.
FallbackPaths ==
    ImagePaths \cup
    {"IMG_snake_eagle.jpg", "my.photos/fox", "Leopard_Deer.PNG", "a_b_duck.tar.gz",
     "uploads/", "bird_.jpg"}

Idle == [op |-> "idle"]

\* What the chat completions of one query come to: the first answers, the
\* first fails and the second answers, both fail.
QueryChats ==
    {c \in ChatScripts : c[1].kind # "bad_choices" /\ c[2] # [kind |-> "bad_choices"]
                         /\ (Answered(c[1]) => Answered(c[2]))}

\* The calls a caller can make to the two services, each with what its
\* collaborators will answer.
Requests ==
    {[op |-> "get_species_from_image", image_path |-> p, out |-> o] :
        p \in ImagePaths, o \in VisionOutcomes}
    \cup {[op |-> "process_query", query |-> q,
           env |-> [search |-> s, hits |-> h, chat |-> c]] :
            q \in Queries, s \in SearchResults, h \in HitPatterns, c \in QueryChats}
    \cup {[op |-> "generate_response", query |-> q, context |-> x, chat |-> c] :
            q \in Queries, x \in Contexts, c \in ChatScripts}
    \cup {[op |-> "generate_fallback_response", query |-> q, context |-> x] :
            q \in RuleQueries, x \in Contexts}

\* The calls to the functions that read and write no state.
FnRequests ==
    {[op |-> "extract_key_terms", query |-> q] : q \in TermQueries}
    \cup {[op |-> "build_context", knowledge_docs |-> DocList(f, n),
           observations |-> ObsList(g, m)] :
            f \in 0..(Len(ContentLens) - 1), n \in 0..MaxDocs,
            g \in 0..3, m \in 0..MaxObs}
    \cup {[op |-> "build_context", knowledge_docs |-> d, observations |-> o] :
            d \in {<<>>, DocList(0, 1), <<FieldNotes>>}, o \in Sightings}
    \cup {[op |-> "generate_fallback_identification", image_path |-> p] :
            p \in FallbackPaths}
    \cup {[op |-> "format_observations", observations |-> FaultyObsList(g, m, k)] :
            g \in 0..3, m \in 0..MaxObs, k \in 0..3}

Init ==
    /\ OPENAI_API_KEY \in ApiKeys
    /\ ai_fallback = FALSE
    /\ rag_fallback = FALSE
    /\ req = Idle
    /\ last = Idle
    /\ hist = [rag_failed |-> FALSE, rag_exhausted |-> FALSE]

\* A caller makes a call.
Request ==
    /\ req = Idle
    /\ last = Idle
    /\ req' \in Requests
    /\ UNCHANGED <<OPENAI_API_KEY, ai_fallback, rag_fallback, last, hist>>

\* The caller has taken the result (or the exception) of its call.
Return ==
    /\ last # Idle
    /\ last' = Idle
    /\ UNCHANGED <<OPENAI_API_KEY, ai_fallback, rag_fallback, req, hist>>

\* The call as it is recorded once it has ended.
Done(e) ==
    req @@ [ai_before |-> ai_fallback, rag_before |-> rag_fallback,
            outcome |-> e.outcome, value |-> e.value, remote |-> e.remote]

\* The attempts among remote that chat has fail
Failed(remote, chat) == {k \in 1..Len(remote) : ~Answered(chat[k])}

Tracked(failed) ==
    [rag_failed |-> hist.rag_failed \/ failed # {},
     rag_exhausted |-> hist.rag_exhausted \/ failed = {1, 2}]

\* EndIdentification with a plausible slip: the two services share one flag.
EndIdentificationShared(e) ==
    /\ ai_fallback' = e.flag
    /\ rag_fallback' = e.flag
    /\ last' = Done(e)
    /\ req' = Idle
    /\ UNCHANGED <<OPENAI_API_KEY, hist>>

\* A call to ai_service ends with effect e.
EndIdentification(e) ==
    /\ ai_fallback' = e.flag
    /\ last' = Done(e)
    /\ req' = Idle
    /\ UNCHANGED <<OPENAI_API_KEY, rag_fallback, hist>>

\* A call to rag_service ends with effect e, its chat completions being chat.
EndQuery(e, chat, more) ==
    /\ rag_fallback' = e.flag
    /\ last' = Done(e) @@ more
    /\ hist' = Tracked(Failed(e.remote, chat))
    /\ req' = Idle
    /\ UNCHANGED <<OPENAI_API_KEY, ai_fallback>>

\* A call to a function that reads and writes no state returns value.
EndFunction(value) ==
    /\ last' = Done(Effect("return", value, FALSE, <<>>))
    /\ req' = Idle
    /\ UNCHANGED <<OPENAI_API_KEY, ai_fallback, rag_fallback, hist>>

CallsOf(e) == [calls |-> e.calls]

GetSpeciesFromImage ==
    /\ req.op = "get_species_from_image"
    /\ EndIdentification(get_species_from_image(req.image_path, OPENAI_API_KEY,
                                                ai_fallback, req.out))

ProcessQuery ==
    /\ req.op = "process_query"
    /\ EndQuery(process_query(req.query, req.env, OPENAI_API_KEY, rag_fallback),
                req.env.chat,
                CallsOf(process_query(req.query, req.env, OPENAI_API_KEY, rag_fallback)))

GenerateResponse ==
    /\ req.op = "generate_response"
    /\ EndQuery(generate_response(req.query, req.context, OPENAI_API_KEY,
                                  rag_fallback, req.chat),
                req.chat, <<>>)

GenerateFallbackResponse ==
    /\ req.op = "generate_fallback_response"
    /\ EndQuery(generate_fallback_response(req.query, req.context), <<>>, <<>>)

ExtractKeyTerms ==
    /\ req.op = "extract_key_terms"
    /\ EndFunction(extract_key_terms(req.query))

BuildContext ==
    /\ req.op = "build_context"
    /\ EndFunction(build_context(req.knowledge_docs, req.observations))

GenerateFallbackIdentification ==
    /\ req.op = "generate_fallback_identification"
    /\ EndFunction(generate_fallback_identification(req.image_path))

FormatObservations ==
    /\ req.op = "format_observations"
    /\ EndFunction(format_observations(req.observations))

Next ==
    \/ Request
    \/ Return
    \/ GetSpeciesFromImage
    \/ ProcessQuery
    \/ GenerateResponse
    \/ GenerateFallbackResponse

Spec == Init /\ [][Next]_vars

(***************************************************************************)
(* The functions without state, each applied to the inputs of FnRequests.  *)
(***************************************************************************)
FnRequest ==
    /\ req = Idle
    /\ last = Idle
    /\ req' \in FnRequests
    /\ UNCHANGED <<OPENAI_API_KEY, ai_fallback, rag_fallback, last, hist>>

FnNext ==
    \/ FnRequest
    \/ Return
    \/ ExtractKeyTerms
    \/ BuildContext
    \/ GenerateFallbackIdentification
    \/ FormatObservations

FnSpec == Init /\ [][FnNext]_vars

(***************************************************************************)
(* Requests handled at the same time: generate_response and                *)
(* get_species_from_image statement by statement, each worker at its own   *)
(* position, the flags shared and written without a lock.  req[t] is the   *)
(* position of worker t, last the latest remote request made, hist which   *)
(* flags have been assigned.                                               *)
(***************************************************************************)
Workers == 1..MaxWorkers

ConcKeys == {NoneValue, Str(""), Str("sk-" \o KeyTail(MinKeyLen - 3))}

Waiting == [pc |-> "idle"]

At(pc, op, read) == [pc |-> pc, op |-> op, read |-> read]

FlagOf(op) == IF op = "generate_response" THEN rag_fallback ELSE ai_fallback

\* USE_FALLBACK_MODE = True in the module of op
SetFlag(op) ==
    IF op = "generate_response"
    THEN /\ rag_fallback' = TRUE
         /\ hist' = [hist EXCEPT !.rag_engaged = TRUE]
         /\ UNCHANGED ai_fallback
    ELSE /\ ai_fallback' = TRUE
         /\ hist' = [hist EXCEPT !.ai_engaged = TRUE]
         /\ UNCHANGED rag_fallback

\* AfterFlag with a plausible slip: the flag is read and not acted upon.
AfterFlagIgnored(op, read) == "key"

\* if USE_FALLBACK_MODE: return generate_fallback_...(...)
AfterFlag(op, read) ==
    IF ~read THEN "key"
    ELSE IF op = "generate_response" THEN "fallback" ELSE "idle"

\* The test of the key: it raises, it rejects the key, or it lets the
\* request go on to its first remote request.
AfterKey(op, check) ==
    IF check = "TypeError" THEN "idle"
    ELSE IF check = "accepted" THEN (IF op = "generate_response" THEN "primary" ELSE "vision")
    ELSE IF op = "generate_response" THEN "fallback" ELSE "engage"

Move(t, pc) ==
    req' = [req EXCEPT ![t] = IF pc = "idle" THEN Waiting ELSE At(pc, req[t].op, req[t].read)]

\* The remote request worker t makes to model, and the flag of its service
\* at that moment.
Remote(t, model) ==
    last' = [op |-> "remote", model |-> model, service |-> req[t].op,
             flag |-> FlagOf(req[t].op), read |-> req[t].read]

ConcInit ==
    /\ OPENAI_API_KEY \in ConcKeys
    /\ ai_fallback = FALSE
    /\ rag_fallback = FALSE
    /\ req = [t \in Workers |-> Waiting]
    /\ last = Idle
    /\ hist = [rag_engaged |-> FALSE, ai_engaged |-> FALSE]

\* A worker takes a request.
Arrive ==
    \E t \in Workers, op \in {"generate_response", "get_species_from_image"} :
        /\ req[t].pc = "idle"
        /\ req' = [req EXCEPT ![t] = At("flag", op, FALSE)]
        /\ UNCHANGED <<OPENAI_API_KEY, ai_fallback, rag_fallback, last, hist>>

\* rag_service.py:152, ai_service.py:15
ReadFlag ==
    \E t \in Workers :
        /\ req[t].pc = "flag"
        /\ req' = [req EXCEPT ![t] =
                      IF AfterFlag(req[t].op, FlagOf(req[t].op)) = "idle" THEN Waiting
                      ELSE At(AfterFlag(req[t].op, FlagOf(req[t].op)), req[t].op,
                              FlagOf(req[t].op))]
        /\ UNCHANGED <<OPENAI_API_KEY, ai_fallback, rag_fallback, last, hist>>

\* rag_service.py:159, ai_service.py:21
TestKey ==
    \E t \in Workers :
        /\ req[t].pc = "key"
        /\ Move(t, AfterKey(req[t].op, KeyCheck(OPENAI_API_KEY)))
        /\ UNCHANGED <<OPENAI_API_KEY, ai_fallback, rag_fallback, last, hist>>

\* rag_service.py:169
RequestPrimary ==
    \E t \in Workers, answered \in BOOLEAN :
        /\ req[t].pc = "primary"
        /\ Remote(t, PrimaryModel)
        /\ Move(t, IF answered THEN "idle" ELSE "secondary")
        /\ UNCHANGED <<OPENAI_API_KEY, ai_fallback, rag_fallback, hist>>

\* rag_service.py:187
RequestSecondary ==
    \E t \in Workers, answered \in BOOLEAN :
        /\ req[t].pc = "secondary"
        /\ Remote(t, SecondaryModel)
        /\ Move(t, IF answered THEN "idle" ELSE "engage")
        /\ UNCHANGED <<OPENAI_API_KEY, ai_fallback, rag_fallback, hist>>

\* ai_service.py:28-64: the image is read, the request posted once
RequestVision ==
    \E t \in Workers, out \in VisionOutcomes :
        /\ req[t].pc = "vision"
        /\ IF out.kind = "read_error" THEN UNCHANGED last ELSE Remote(t, VisionModel)
        /\ Move(t, IF out.kind = "content" THEN "idle" ELSE "engage")
        /\ UNCHANGED <<OPENAI_API_KEY, ai_fallback, rag_fallback, hist>>

\* rag_service.py:202, ai_service.py:23, 70, 76
Engage ==
    \E t \in Workers :
        /\ req[t].pc = "engage"
        /\ SetFlag(req[t].op)
        /\ Move(t, IF req[t].op = "generate_response" THEN "fallback" ELSE "idle")
        /\ UNCHANGED <<OPENAI_API_KEY, last>>

\* rag_service.py:96: generate_fallback_response sets the flag and answers
Fallback ==
    \E t \in Workers :
        /\ req[t].pc = "fallback"
        /\ SetFlag(req[t].op)
        /\ Move(t, "idle")
        /\ UNCHANGED <<OPENAI_API_KEY, last>>

ConcNext ==
    \/ Arrive
    \/ ReadFlag
    \/ TestKey
    \/ RequestPrimary
    \/ RequestSecondary
    \/ RequestVision
    \/ Engage
    \/ Fallback

ConcSpec == ConcInit /\ [][ConcNext]_vars
(***************************************************************************)
(* Properties.                                                             *)
(***************************************************************************)
RagOps == {"process_query", "generate_response", "generate_fallback_response"}

\* The context process_query built in the call recorded in last.
ContextOfQuery ==
    build_context(last.env.search.docs,
                  ObservationResults(last.env, Len(last.calls) - 1, 1))

\* C1: in each service, once USE_FALLBACK_MODE is True no call, whatever it
\* is and however it ends, sets it back to False.
C1_FallbackIsSticky ==
    [][(ai_fallback => ai_fallback') /\ (rag_fallback => rag_fallback')]_vars

\* Both flags are set and a call has just ended that started in fallback mode.
C1_Witness ==
    /\ ai_fallback /\ rag_fallback
    /\ last.op = "generate_response" /\ last.rag_before

\* C2: a call of generate_response (of get_species_from_image) that starts
\* with the flag of its service set makes no remote request and returns what
\* generate_fallback_response (generate_fallback_identification) returns for
\* the same arguments.
C2_FallbackShortCircuits ==
    /\ (last.op = "generate_response" /\ last.rag_before) =>
            /\ last.remote = <<>>
            /\ last.outcome = "return"
            /\ last.value = FallbackText(last.query, last.context)
    /\ (last.op = "get_species_from_image" /\ last.ai_before) =>
            /\ last.remote = <<>>
            /\ last.outcome = "return"
            /\ last.value = generate_fallback_identification(last.image_path)

\* generate_response has ended in fallback mode although the key is accepted
\* and the first chat completion would have answered.
C2_Witness ==
    /\ last.op = "generate_response" /\ last.rag_before
    /\ KeyCheck(OPENAI_API_KEY) = "accepted"
    /\ Answered(last.chat[1])

\* The credentials that fail the validity precheck as the specification
\* words it: absent, empty, the placeholder "None", shorter than 20.
FailsPrecheck(api_key) ==
    \/ api_key = NoneValue
    \/ api_key.s = ""
    \/ api_key.s = "None"
    \/ Len(api_key.s) < MinKeyLen

\* C3: with a credential that fails the precheck, process_query and
\* get_species_from_image make no remote request, return the deterministic
\* result for their input and leave the flag of their service set.
C3_InvalidKeyFallsBack ==
    /\ (last.op = "get_species_from_image" /\ FailsPrecheck(OPENAI_API_KEY)) =>
            /\ last.remote = <<>>
            /\ last.outcome = "return"
            /\ last.value = generate_fallback_identification(last.image_path)
            /\ ai_fallback
    /\ (/\ last.op = "process_query" /\ FailsPrecheck(OPENAI_API_KEY)
        /\ last.env.search.kind = "docs") =>
            /\ last.remote = <<>>
            /\ last.outcome = "return"
            /\ last.value.response = FallbackText(last.query, ContextOfQuery)
            /\ rag_fallback

WellFormedIdentification(v) ==
    /\ DOMAIN v = {"success", "result", "species"}
    /\ v.success \in BOOLEAN
    /\ v.species = NoneValue \/ DOMAIN v.species = {"name", "confidence"}

WellFormedQueryResult(v) ==
    /\ DOMAIN v = {"response", "knowledge_sources", "observation_count", "observations"}
    /\ v.observation_count \in Nat
    /\ Len(v.observations) <= v.observation_count

\* C4: get_species_from_image and process_query never raise: whatever the
\* input, the credential and the faults of the remote calls and of the
\* collaborators, each returns a well-formed result, and a fault of the
\* identification or of the generation sets the flag and gives the
\* deterministic result.
C4_NeverRaises ==
    /\ last.op = "get_species_from_image" =>
            /\ last.outcome = "return"
            /\ WellFormedIdentification(last.value)
            /\ (~last.ai_before /\ last.out.kind # "content") =>
                    /\ ai_fallback
                    /\ last.value = generate_fallback_identification(last.image_path)
    /\ last.op = "process_query" =>
            /\ last.outcome = "return"
            /\ WellFormedQueryResult(last.value)
            /\ (last.remote # <<>> /\ Failed(last.remote, last.env.chat) = {1, 2}) =>
                    /\ rag_fallback
                    /\ last.value.response = FallbackText(last.query, ContextOfQuery)

C6_AnyFailureEngages == hist.rag_failed => rag_fallback

\* C6, amended: the flag is set once the primary and the secondary request
\* of one call have both failed, and from then on no call makes a remote
\* request; a primary failure that the secondary request makes good leaves
\* the flag as it was.
C6_ExhaustionEngages ==
    /\ hist.rag_exhausted => rag_fallback
    /\ (last.op \in {"generate_response", "process_query"} /\ last.rag_before) =>
            last.remote = <<>>
    /\ (/\ last.op \in {"generate_response", "process_query"}
        /\ Len(last.remote) = 2
        /\ Failed(last.remote, IF last.op = "process_query" THEN last.env.chat
                               ELSE last.chat) = {1}) =>
            rag_fallback = last.rag_before

\* Both requests of an earlier call have failed, and a later call with an
\* accepted key has ended.
C6_Witness ==
    /\ hist.rag_exhausted
    /\ last.op = "generate_response" /\ last.rag_before
    /\ KeyCheck(OPENAI_API_KEY) = "accepted"

\* C7: get_species_from_image, started in normal mode with a key the check
\* accepts, makes at most one remote request; when the attempt fails (the
\* image cannot be read, the request raises, the response has no usable
\* 'choices') it sets the flag and returns generate_fallback_identification
\* of the path; when it succeeds the flag stays unset.
C7_SingleVisionAttempt ==
    (/\ last.op = "get_species_from_image" /\ ~last.ai_before
     /\ KeyCheck(OPENAI_API_KEY) = "accepted") =>
        /\ Len(last.remote) <= 1
        /\ last.outcome = "return"
        /\ last.out.kind # "content" =>
                /\ ai_fallback
                /\ last.value = generate_fallback_identification(last.image_path)
        /\ last.out.kind = "content" =>
                /\ ~ai_fallback
                /\ last.remote = <<VisionModel>>
                /\ last.value.result = last.out.text

\* The response of the vision model had no 'choices'.
C7_Witness ==
    /\ last.op = "get_species_from_image" /\ ~last.ai_before
    /\ KeyCheck(OPENAI_API_KEY) = "accepted"
    /\ last.out.kind = "no_choices"
    /\ last.remote = <<VisionModel>>

\* C8: the two flags are independent: a call of get_species_from_image
\* leaves the flag of the query service as it was, and a call of
\* process_query, generate_response or generate_fallback_response leaves the
\* flag of the identification service as it was.
C8_FlagsIndependent ==
    /\ last.op = "get_species_from_image" => rag_fallback = last.rag_before
    /\ last.op \in RagOps => ai_fallback = last.ai_before

\* An identification has set its flag while the query service is in normal
\* mode.
C8_Witness ==
    /\ last.op = "get_species_from_image"
    /\ ~last.ai_before /\ ai_fallback /\ ~rag_fallback

BirdsQuery == "Tell me about birds near Margalla Hills"

Vocabulary == locations \o categories

PositionIn(term) == Least({i \in 1..Len(Vocabulary) : Vocabulary[i] = term})

\* One returned term is part of another one.
Overlapping(terms) ==
    \E i, j \in 1..Len(terms) : i # j /\ Contains(terms[j], terms[i])

InScanOrder(terms) ==
    \A i, j \in 1..Len(terms) : i < j => PositionIn(terms[i]) < PositionIn(terms[j])

\* C9, as claimed: the matches come in scan order, no returned term is part
\* of another one, and the query about birds near Margalla Hills gives
\* exactly "margalla hills" and "bird".
C9_NoOverlap ==
    last.op = "extract_key_terms" =>
        /\ InScanOrder(last.value)
        /\ ~Overlapping(last.value)
        /\ last.query = BirdsQuery => last.value = <<"margalla hills", "bird">>

\* C9, amended: the matches come in scan order, none twice, but the
\* vocabulary overlaps: whenever a plural category is returned its singular
\* is returned before it, and the query about birds near Margalla Hills
\* gives "margalla hills", "bird" and "birds".
C9_ScanOrderWithPlurals ==
    last.op = "extract_key_terms" =>
        /\ InScanOrder(last.value)
        /\ \A j \in 1..Len(last.value) :
                \A c \in {"bird", "mammal", "reptile", "amphibian"} :
                    last.value[j] = c \o "s" => j > 1 /\ last.value[j - 1] = c
        /\ last.query = BirdsQuery => last.value = <<"margalla hills", "bird", "birds">>

C9_Witness ==
    /\ last.op = "extract_key_terms"
    /\ last.query = BirdsQuery
    /\ Len(last.value) = 3

\* The line of the context for one document and for one observation, as the
\* specification words them.
ShownDoc(doc) ==
    "- " \o doc.title \o " (" \o doc.source \o "): "
         \o SubSeq(doc.content, 1, Min(300, Len(doc.content))) \o "...\n\n"

Field(obs, key, placeholder) == IF key \in DOMAIN obs THEN obs[key] ELSE placeholder

ShownObs(obs) ==
    "- " \o Field(obs, "species_name", "Unknown species") \o " observed at "
         \o Field(obs, "location", "Unknown location") \o " on "
         \o Field(obs, "date_observed", "Unknown date") \o "\n"

\* C10: build_context renders the first min(3, n) documents and the first
\* min(5, m) observations, in input order, each content cut to its first
\* 300 characters and followed by an ellipsis, each observation as
\* "<species> observed at <location> on <date>" with the placeholders for
\* absent fields; no later document or observation appears.
C10_ContextIsBounded ==
    last.op = "build_context" =>
        LET docs == last.knowledge_docs
            obs == last.observations
            n == Min(3, Len(docs))
            m == Min(5, Len(obs))
        IN  /\ last.value =
                    "Knowledge Base Information:\n"
                        \o Join([i \in 1..n |-> ShownDoc(docs[i])], "")
                        \o "\nRecent Observations:\n"
                        \o Join([i \in 1..m |-> ShownObs(obs[i])], "")
            /\ \A j \in (n + 1)..Len(docs) :
                    ~Contains(last.value, "- " \o docs[j].title \o " (")
            /\ \A j \in (m + 1)..Len(obs) : ~Contains(last.value, ShownObs(obs[j]))

\* Four documents, the first longer than 300 characters, and seven
\* observations.
C10_Witness ==
    /\ last.op = "build_context"
    /\ Len(last.knowledge_docs) = 4 /\ Len(last.observations) = 7
    /\ Len(last.knowledge_docs[1].content) > 300
    /\ "species_name" \notin DOMAIN last.observations[2]

\* The response of one rule: its list, or its sentence for an empty list.
OfRule(v, found, none) == StartsWith(v, found) \/ v = none

BirdRule(v) ==
    OfRule(v, "Based on our records, the following bird species have been observed in Islamabad: ",
           "I don't have specific information about birds in that area from our records.")

MargallaRule(v) ==
    OfRule(v, "In Margalla Hills, these species have been recorded: ",
           "Margalla Hills is known for its biodiversity, but I don't have specific observations in our current records.")

RawalRule(v) ==
    OfRule(v, "At Rawal Lake, these species have been observed: ",
           "Rawal Lake is home to various species, but I don't have specific observations in our current records.")

DefaultRule(v) ==
    OfRule(v, "Based on our records, these species have been observed in Islamabad: ",
           "I don't have specific information about that in our current records. You can try asking about birds, mammals, or specific locations like Margalla Hills or Rawal Lake.")

RulePriority(q, v) ==
    IF Contains(q, "bird") THEN BirdRule(v)
    ELSE IF Contains(q, "margalla") THEN MargallaRule(v)
    ELSE IF Contains(q, "rawal") \/ Contains(q, "lake") THEN RawalRule(v)
    ELSE DefaultRule(v)

\* C11: generate_fallback_response applies its keyword rules in the order
\* bird, margalla, rawal or lake, default, and the first that matches the
\* lowercased query answers: a query that holds "bird" gets the list of the
\* bird species or the sentence about birds, whatever places it names and
\* whatever the context holds for them; margalla comes before rawal or lake;
\* the default rule answers only when none of the three matches.
C11_RulePriority ==
    last.op = "generate_fallback_response" =>
        /\ last.outcome = "return"
        /\ RulePriority(Lower(last.query), last.value)

\* A query about birds that names Margalla too, on a context with an
\* observation in the Margalla Hills, has got the list of the bird species.
C11_Witness ==
    /\ last.op = "generate_fallback_response"
    /\ Contains(Lower(last.query), "bird") /\ Contains(Lower(last.query), "margalla")
    /\ Contains(last.context, "observed at Margalla Hills")
    /\ last.value = "Based on our records, the following bird species have been observed in Islamabad: Steppe Eagle."

\* The name the keywords are looked up in, as the claim words it: the path
\* less its directory, lowercased, less the part up to the first underscore,
\* less the extension.
LastPart(parts) == parts[Len(parts)]

AfterUnderscore(name, k) == IF k > 0 THEN SubSeq(name, k + 1, Len(name)) ELSE name

LessExtension(name, dot) ==
    IF dot > 1 /\ (\E i \in 1..(dot - 1) : SubSeq(name, i, i) # ".")
    THEN SubSeq(name, 1, dot - 1)
    ELSE name

LessPrefix(name) == AfterUnderscore(name, Find(name, "_"))

LessSuffix(name) == LessExtension(name, RFind(name, "."))

RemainingName(image_path) == LessSuffix(LessPrefix(Lower(LastPart(Split(image_path, "/")))))

DeclarationOrder == <<"leopard", "deer", "fox", "bird", "eagle", "duck", "snake">>

FirstKeyword(name) ==
    FirstOf({i \in 1..Len(DeclarationOrder) : Contains(name, DeclarationOrder[i])})

OfflineIdentification(v, k) ==
    /\ v.success
    /\ Contains(v.result, "(Note: This is an offline identification)")
    /\ k = 0 => v.species = [name |-> "Unknown Wildlife Species", confidence |-> 5]
    /\ k > 0 =>
            /\ common_wildlife[k].keyword = DeclarationOrder[k]
            /\ v.species = [name |-> common_wildlife[k].name, confidence |-> 7]
            /\ Contains(v.result, common_wildlife[k].name)

\* C12: generate_fallback_identification strips the directory, the part of
\* the name up to its first underscore and the extension, lowercases, and
\* returns the entry of the first keyword, in the order leopard, deer, fox,
\* bird, eagle, duck, snake, that the remaining name holds, with confidence
\* 0.7; with no such keyword it returns "Unknown Wildlife Species" with
\* confidence 0.5; success is true and the text carries the offline note in
\* both cases; "uuid123_leopard.jpg" gives "Common Leopard" at 0.7.
C12_FilenameFallback ==
    last.op = "generate_fallback_identification" =>
        /\ last.outcome = "return"
        /\ OfflineIdentification(last.value, FirstKeyword(RemainingName(last.image_path)))
        /\ last.image_path = "static/uploads/uuid123_leopard.jpg" =>
                last.value.species = [name |-> "Common Leopard", confidence |-> 7]

\* The remaining name holds "snake" before "eagle": the entry of "eagle",
\* declared first, is returned.
C12_Witness ==
    /\ last.op = "generate_fallback_identification"
    /\ last.image_path = "IMG_snake_eagle.jpg"
    /\ last.value.species.name = "Steppe Eagle"

\* The positions of the observations whose coordinates are present and
\* truthy, and of those among them whose formatting fails.
WithCoordinates(obs) ==
    {i \in 1..Len(obs) : "coordinates" \in DOMAIN obs[i] /\ obs[i]["coordinates"] # <<>>}

Faulting(obs) == {i \in WithCoordinates(obs) : Raises(obs[i])}

\* The j-th member of a set of positions, in increasing order.
Nth(S, j) == CHOOSE i \in S : Cardinality({x \in S : x < i}) = j - 1

PointFeatures(value, obs, shown) ==
    /\ Len(value) = Cardinality(shown)
    /\ \A j \in 1..Len(value) :
            /\ value[j].type = "Feature"
            /\ value[j].geometry =
                    [type |-> "Point", coordinates |-> obs[Nth(shown, j)]["coordinates"]]

\* C13: format_observations returns, in input order, one Point Feature with
\* the coordinates of the observation for each observation whose coordinates
\* are truthy, and nothing for the others; an observation whose formatting
\* fails is dropped alone and the rest of the batch is formatted, so the
\* output is never longer than the number of observations with truthy
\* coordinates.
C13_PointFeatures ==
    last.op = "format_observations" =>
        /\ last.outcome = "return"
        /\ PointFeatures(last.value, last.observations,
                         WithCoordinates(last.observations) \ Faulting(last.observations))
        /\ Len(last.value) <= Cardinality(WithCoordinates(last.observations))

\* The formatting of one observation has failed and a later observation is
\* in the output; the batch also holds observations without coordinates and
\* with empty ones.
C13_Witness ==
    /\ last.op = "format_observations"
    /\ Faulting(last.observations) # {}
    /\ \E i \in WithCoordinates(last.observations) \ Faulting(last.observations) :
            \E k \in Faulting(last.observations) : k < i
    /\ \E i \in 1..Len(last.observations) : "coordinates" \notin DOMAIN last.observations[i]
    /\ \E i \in 1..Len(last.observations) :
            /\ "coordinates" \in DOMAIN last.observations[i]
            /\ last.observations[i]["coordinates"] = <<>>
    /\ Len(last.value) >= 1

\* A flag that has been assigned is set: the assignments are all of True.
Monotonic ==
    /\ hist.rag_engaged => rag_fallback
    /\ hist.ai_engaged => ai_fallback

\* C14, as claimed: for requests handled at the same time the flips are
\* idempotent and monotonic, and no remote request is made at a moment at
\* which the flag of its service is set.
C14_NoRemoteOnceEngaged ==
    /\ Monotonic
    /\ last.op = "remote" => ~last.flag

\* C14, amended: the flips are idempotent and monotonic, and no remote
\* request is made by a request that read the flag of its service as set; a
\* request that read it as unset goes on to its remote requests whatever the
\* other requests have done to the flag since.
C14_NoRemoteOnceRead ==
    /\ Monotonic
    /\ last.op = "remote" => ~last.read
    /\ \A t \in Workers :
            req[t].pc \in {"primary", "secondary", "vision"} => ~req[t].read

\* A remote request has been made while the flag of its service was set, by
\* a request that had read it as unset.
C14_Witness ==
    /\ last.op = "remote" /\ last.flag /\ ~last.read
    /\ last.service = "generate_response" /\ rag_fallback

\* The observations the context shows, and what they store.
Shown(obs) == SubSeq(obs, 1, Min(5, Len(obs)))

StoredSpecies(obs) == [i \in 1..Len(obs) |-> obs[i]["species_name"]]

StoredLocations(obs) == [i \in 1..Len(obs) |-> obs[i]["location"]]

\* The species of the observations whose stored location holds the word.
StoredAt(obs, word) ==
    SelectAt(StoredSpecies(obs),
             {i \in 1..Len(obs) : Contains(Lower(obs[i]["location"]), word)}, 1)

RoundTrip(context, obs) ==
    /\ species_mentioned(context) = StoredSpecies(obs)
    /\ locations_mentioned(context) = StoredLocations(obs)
    /\ \A word \in {"margalla", "rawal"} :
            SpeciesAt(species_mentioned(context), locations_mentioned(context), word)
                = StoredAt(obs, word)

\* C15: the lists of species and locations that generate_fallback_response
\* parses from build_context(documents, observations) are the species_name
\* and location values of the first five observations, in order: no line of
\* a document is read as an observation, every location is recovered in
\* full, and the margalla and rawal rules select the observations whose
\* stored location holds the word.  Stated for observations that store both
\* fields.
C15_RoundTrip ==
    (/\ last.op = "build_context"
     /\ \A i \in 1..Len(last.observations) :
            {"species_name", "location"} \subseteq DOMAIN last.observations[i]) =>
        RoundTrip(last.value, Shown(last.observations))

\* The number of observations the first n lookups of the call have found.
RECURSIVE TotalFound(_, _)
TotalFound(env, n) ==
    IF n = 0 THEN 0 ELSE Len(ObsAnswer(env, n)) + TotalFound(env, n - 1)

\* The call has left its try block through the except branch: the search
\* or generate_response has raised.
Excepted ==
    \/ last.env.search.kind = "raise"
    \/ ~last.rag_before /\ OPENAI_API_KEY = NoneValue

\* one search, then find_by_species and find_by_location for each term
LookupsInOrder(calls, query, terms) ==
    /\ calls[1] = [fn |-> "search", arg |-> query]
    /\ \A k \in 2..Len(calls) : calls[k].fn # "search"
    /\ Len(calls) = 1 + 2 * Len(terms)
    /\ \A j \in 1..Len(terms) :
            /\ calls[2 * j] = [fn |-> "find_by_species", arg |-> terms[j]]
            /\ calls[2 * j + 1] = [fn |-> "find_by_location", arg |-> terms[j]]

CountsAll(v, env, docs, lookups) ==
    /\ v.observation_count = TotalFound(env, lookups)
    /\ v.knowledge_sources = [i \in 1..Len(docs) |-> docs[i].title]
    /\ lookups = 0 => v.observation_count = 0 /\ v.observations = <<>>

Held(text) ==
    SelectAt(Vocabulary, {i \in 1..Len(Vocabulary) : Occurrences(text, Vocabulary[i]) # {}}, 1)

\* C17: extract_key_terms never fails and returns the subsequence of
\* locations ++ categories made of the entries that are substrings of the
\* lowercased query, with no test of word boundaries; the empty query gives
\* the empty list.
C17_SubstringMatches ==
    last.op = "extract_key_terms" =>
        /\ last.outcome = "return"
        /\ last.value = Held(Lower(last.query))
        /\ last.query = "" => last.value = <<>>

\* "fish" has been found inside "selfish".
C17_Witness ==
    /\ last.op = "extract_key_terms"
    /\ last.query = "selfish"
    /\ last.value = <<"fish">>

\* The confidence the phrases of a lowercased text stand for, in tenths.
Rated(text, confidence) ==
    /\ Contains(text, "high confidence") => confidence = 9
    /\ (~Contains(text, "high confidence") /\ Contains(text, "medium confidence")) =>
            confidence = 7
    /\ (/\ ~Contains(text, "high confidence") /\ ~Contains(text, "medium confidence")
        /\ Contains(text, "low confidence")) => confidence = 5
    /\ (/\ ~Contains(text, "high confidence") /\ ~Contains(text, "medium confidence")
        /\ ~Contains(text, "low confidence")) => confidence = 6

\* The result of the primary path for the text the vision model returned.
PrimaryResult(v, text, text_lower) ==
    /\ v.success
    /\ v.result = text
    /\ ~Contains(text_lower, "identified as") => v.species = NoneValue
    /\ Contains(text_lower, "identified as") =>
            /\ v.species # NoneValue
            /\ Rated(text_lower, v.species.confidence)

\* C18: get_confidence_from_text gives 0.9 when the text holds "high
\* confidence", in any case of the letters and whatever other phrase it
\* holds, else 0.7 for "medium confidence", else 0.5 for "low confidence",
\* else 0.6; every confidence of an identification is one of 0.5, 0.6, 0.7
\* and 0.9; a response without "identified as" gives no species record and
\* success is true all the same.
C18_ConfidenceLevels ==
    (last.op = "get_species_from_image" /\ last.outcome = "return") =>
        /\ last.value.species # NoneValue => last.value.species.confidence \in {5, 6, 7, 9}
        /\ last.remote = <<VisionModel>> /\ last.out.kind = "content" =>
                PrimaryResult(last.value, last.out.text, Lower(last.out.text))

\* The text holds the low phrase before the high one: the confidence is 0.9.
C18_Witness ==
    /\ last.op = "get_species_from_image"
    /\ last.remote = <<VisionModel>> /\ last.out.kind = "content"
    /\ Contains(Lower(last.out.text), "low confidence")
    /\ Contains(Lower(last.out.text), "high confidence")
    /\ last.value.species.confidence = 9

\* The call returned what its last remote request answered.
RemoteAnswer(value, remote, chat) ==
    /\ remote # <<>>
    /\ Answered(chat[Len(remote)])
    /\ value = chat[Len(remote)].text

\* C19: a call of generate_response that returns a response of
\* generate_fallback_response, and a call of get_species_from_image that
\* returns a result of generate_fallback_identification, leave the flag of
\* their service set; that is, a call that returns with the flag unset has
\* returned the text of a remote request that succeeded.
C19_DeterministicMeansFallback ==
    /\ (last.op = "generate_response" /\ last.outcome = "return") =>
            /\ ~RemoteAnswer(last.value, last.remote, last.chat) =>
                    /\ rag_fallback
                    /\ last.value = FallbackText(last.query, last.context)
            /\ ~rag_fallback => RemoteAnswer(last.value, last.remote, last.chat)
    /\ (last.op = "get_species_from_image" /\ last.outcome = "return") =>
            /\ (last.remote = <<>> \/ last.out.kind # "content") =>
                    /\ ai_fallback
                    /\ last.value = generate_fallback_identification(last.image_path)
            /\ ~ai_fallback =>
                    /\ last.remote = <<VisionModel>>
                    /\ last.out.kind = "content"
                    /\ last.value.result = last.out.text

\* The key was rejected by a call that started in normal mode: it has
\* returned the deterministic response and the flag is set.
C19_Witness ==
    /\ last.op = "generate_response" /\ last.outcome = "return"
    /\ ~last.rag_before /\ rag_fallback
    /\ last.remote = <<>>
    /\ last.value = FallbackText(last.query, last.context)
====
